---- MODULE Spec2Model ----
(***************************************************************************)
(* Synchronisation and event-distribution core of the backend:             *)
(*   app/services/sync_service.py   SyncService                            *)
(*   app/core/events.py             EventManager                           *)
(*   app/core/websockets.py         WebSocketManager                       *)
(*                                                                         *)
(* Every `await` on a collaborator (aggregator client, cache, transport,   *)
(* event manager) is a suspension point: the code between two awaits is    *)
(* one atomic action, and other tasks may run between two actions.         *)
(***************************************************************************)
EXTENDS Integers, Sequences, FiniteSets, TLC

None == "None"

(***************************************************************************)
(* Part 1.  SyncService                                                    *)
(***************************************************************************)

\* bounds of the sync model
MaxDirect == 1
MaxBatch == 1
MaxCursor == 1

DEFAULT_SYNC_INTERVAL == 60

SyncUsers == {"A", "B"}
\* the users whose syncs run
SyncActors == {"A"}
\* the access-token lists a caller may schedule for a user
TokenLists(u) == IF u = "A" THEN {<<"a1">>, <<"a1", "a2">>} ELSE {<<"b1">>}
Tokens(u) == UNION {{l[i] : i \in 1..Len(l)} : l \in TokenLists(u)}
Intervals == {30, DEFAULT_SYNC_INTERVAL, 120}
CursorNames == <<"c1", "c2", "c3">>
Cursors == {CursorNames[i] : i \in 1..MaxCursor}
\* what the aggregator may return as next_cursor
NextCursors == {None} \cup Cursors
BalanceValues == {"bal1", "bal2"}
PlaidErrors == {"TransientNetworkError", "AuthExpiredError", "CursorConflictError"}
\* the exceptions get_balances may raise
BalErrors == {"TransientNetworkError", "AuthExpiredError"}
DirectSlots == 1..MaxDirect
\* a batch of k added transactions is the list t1..tk
Batches == 0..MaxBatch

VARIABLES
    sync_cursors,   \* SyncService._sync_cursors: user_id -> cursor
    cache_cursors,  \* cache entries sync_cursor:<user_id>
    cache_keys,     \* cache entry sync_cursor:keys
    cache_balances, \* cache entries balances:<user_id>
    cache_schedule, \* cache entries sync_schedule:<user_id>
    sync_tasks,     \* SyncService._sync_tasks: user_id -> periodic task
    direct,         \* direct calls of sync_transactions in progress
    published,      \* calls of EventManager.publish_event made by the service
    last_run,       \* the sync_transactions run that ended last (history)
    detached        \* periodic tasks that are no longer in _sync_tasks and
                    \* still run

syncVars == <<sync_cursors, cache_cursors, cache_keys, cache_balances,
              cache_schedule, sync_tasks, direct, published, last_run,
              detached>>

VARIABLES
    connections,      \* WebSocketManager._connections: user_id -> set of sockets
    ws_subscriptions, \* WebSocketManager._subscriptions: user_id -> event types
    em_subscriptions, \* EventManager._subscriptions: user_id -> event types
    conn_pc,          \* where the connect() call of a socket is
    transport,        \* state of the socket's transport
    hb,               \* where the socket's _monitor_heartbeat task is
    inbox,            \* client messages not yet read by receive_json
    ws_slot,          \* cache entries ws_events:<type>
    em_slot,          \* cache entries events:<type>
    pub_call,         \* publish_event calls between their two cache writes
    em_poll,          \* EventManager._start_redis_subscriber
    ws_poll,          \* WebSocketManager._start_redis_subscriber
    clock,            \* time in seconds
    n_events,         \* history: how many events were published; the k-th has id k
    owed,             \* history: per socket, the events published while it was a
                      \* connected subscriber of their type and among their targets
    conn_subs,        \* history: the types each socket asked to subscribe to
    received,         \* history: per socket, the events in order of first receipt
    answered,         \* history: the socket's last ping was answered by a pong
    ret               \* history: the last call of publish_event, subscribe or
                      \* unsubscribe that was recorded, with what it returned

wsVars == <<connections, ws_subscriptions, em_subscriptions, conn_pc, transport,
            hb, inbox, ws_slot, em_slot, pub_call, em_poll, ws_poll, clock,
            n_events, owed, conn_subs, received, answered, ret>>

connVars == <<connections, ws_subscriptions, conn_pc, transport, hb>>

evVars == <<ws_slot, em_slot, pub_call, n_events, owed>>

NoTask == [pc |-> "none"]
NoCall == [pc |-> "none"]
NoRun == [outcome |-> "none"]
\* no entry sync_schedule:<user_id> in the cache
NoSchedule == [tokens |-> <<>>]

\* SyncService.__init__ with an empty cache
SyncInit ==
    /\ sync_cursors = [u \in SyncUsers |-> None]
    /\ cache_cursors = [u \in SyncUsers |-> None]
    /\ cache_keys = {}
    /\ cache_balances = [u \in SyncUsers |-> None]
    /\ cache_schedule = [u \in SyncUsers |-> NoSchedule]
    /\ sync_tasks = [u \in SyncUsers |-> NoTask]
    /\ direct = [d \in DirectSlots |-> NoCall]
    /\ published = {}
    /\ last_run = NoRun
    /\ detached = [u \in SyncUsers |-> {}]

\* SyncService._save_sync_cursor: the in-memory cursor, its cache entry and the
\* list of cursor keys, all keyed by user_id alone
save_sync_cursor(u, cursor) ==
    /\ sync_cursors' = [sync_cursors EXCEPT ![u] = cursor]
    /\ cache_cursors' = [cache_cursors EXCEPT ![u] = cursor]
    /\ cache_keys' = cache_keys \cup {u}

\* sync_transactions up to its first await: read the cursor, call the aggregator
txn_call(rec, u) ==
    [rec EXCEPT !.pc = "txn", !.cur = sync_cursors[u], !.txns = 0,
                !.next = None, !.saved = FALSE, !.replay = FALSE]

\* the record kept of a sync_transactions run when it ends
run_record(u, tok, rec, outcome, applied, new) ==
    [user |-> u, token |-> tok, cur |-> rec.cur, txns |-> rec.txns,
     next |-> rec.next, saved |-> rec.saved, replay |-> rec.replay,
     outcome |-> outcome, applied |-> applied, new |-> new]

\* a run repeats the last run when it is made for the same user with the same
\* cursor and gets the same response, that run having been applied
is_replay(u, cur, k, nc) ==
    /\ last_run.outcome = "returned"
    /\ last_run.applied
    /\ last_run.user = u
    /\ last_run.cur = cur
    /\ last_run.txns = k
    /\ last_run.next = nc

\* sync_transactions from the aggregator's response to the next await or the
\* return: save the cursor if there is one, publish if there are transactions
txn_response(rec, u, k, nc) ==
    [rec EXCEPT !.pc = IF k > 0 THEN "pub_txn" ELSE "ret",
                !.txns = k, !.next = nc, !.saved = (nc # None),
                !.replay = is_replay(u, rec.cur, k, nc)]

txn_effects(rec, u, k, nc) ==
    /\ IF nc # None
         THEN save_sync_cursor(u, nc)
         ELSE UNCHANGED <<sync_cursors, cache_cursors, cache_keys>>
    /\ published' = IF k > 0
         THEN published \cup {[type |-> "transaction.create", user |-> u,
                               payload |-> k, targets |-> {u}]}
         ELSE published

\* the result's new_transactions: len(transactions)
new_transactions(k) == k

\* the periodic task after one token's syncs: the next token, or the end of the
\* loop body (last_sync stored, then sleep)
clear_run(t) ==
    [t EXCEPT !.cur = None, !.txns = 0, !.next = None, !.saved = FALSE,
              !.replay = FALSE]

task_advance(t) ==
    IF t.i < Len(t.tokens)
      THEN [clear_run(t) EXCEPT !.pc = "bal", !.i = t.i + 1]
      ELSE [clear_run(t) EXCEPT !.pc = "sleep"]

schedule_after(u, t) ==
    IF t.i < Len(t.tokens)
      THEN cache_schedule
      ELSE [cache_schedule EXCEPT ![u] =
              [tokens |-> t.tokens, interval |-> t.interval, last_sync |-> TRUE]]

\* what cancelling a task leaves of the sync_transactions run it was in
cancelled_run(u, t) ==
    IF t.pc \in {"txn", "pub_txn"}
      THEN run_record(u, t.tokens[t.i], t, "cancelled", FALSE, 0)
      ELSE last_run

\* what is left running of a task whose cancellation does not end it
task_cancel_ignored(t) == {t}

\* asyncio.Task.cancel() on the periodic task t: what of it goes on running.
\* CancelledError is raised at the await the task is suspended in; it is not an
\* Exception, so no handler of sync_task, sync_account_data, sync_transactions
\* or publish_event catches it, and the task ends.
task_cancel(t) == {}

\* the task of u in _sync_tasks is cancelled and its entry deleted
cancel_task(u) ==
    IF sync_tasks[u].pc = "none"
      THEN detached
      ELSE [detached EXCEPT ![u] = @ \cup task_cancel(sync_tasks[u])]

\* SyncService.cancel_sync
cancel_sync(u) ==
    /\ sync_tasks' = [sync_tasks EXCEPT ![u] = NoTask]
    /\ detached' = cancel_task(u)
    /\ cache_schedule' = [cache_schedule EXCEPT ![u] = NoSchedule]
    /\ last_run' = cancelled_run(u, sync_tasks[u])
    /\ UNCHANGED <<sync_cursors, cache_cursors, cache_keys, cache_balances,
                   direct, published>>

CancelSync(u) == cancel_sync(u) /\ UNCHANGED wsVars

\* no clamping
clamp_interval_asked(interval_minutes) == interval_minutes

clamp_interval(interval_minutes) ==
    IF interval_minutes < DEFAULT_SYNC_INTERVAL
      THEN DEFAULT_SYNC_INTERVAL ELSE interval_minutes

\* schedule_sync without its call of cancel_sync: the new task replaces the
\* entry of the old one, which goes on running
schedule_sync_no_cancel(u, access_tokens, interval_minutes) ==
    /\ sync_tasks' = [sync_tasks EXCEPT ![u] =
          [pc |-> "start", tokens |-> access_tokens, i |-> 1,
           interval |-> clamp_interval(interval_minutes),
           cur |-> None, txns |-> 0, next |-> None,
           saved |-> FALSE, replay |-> FALSE, err |-> None]]
    /\ cache_schedule' = [cache_schedule EXCEPT ![u] =
          [tokens |-> access_tokens,
           interval |-> clamp_interval(interval_minutes),
           last_sync |-> FALSE]]
    /\ detached' = IF sync_tasks[u].pc = "none" THEN detached
                   ELSE [detached EXCEPT ![u] = @ \cup {sync_tasks[u]}]
    /\ last_run' = last_run
    /\ UNCHANGED <<sync_cursors, cache_cursors, cache_keys, cache_balances,
                   direct, published>>

\* SyncService.schedule_sync: clamp, cancel, store the schedule, start the task
schedule_sync(u, access_tokens, interval_minutes) ==
    /\ sync_tasks' = [sync_tasks EXCEPT ![u] =
          [pc |-> "start", tokens |-> access_tokens, i |-> 1,
           interval |-> clamp_interval(interval_minutes),
           cur |-> None, txns |-> 0, next |-> None,
           saved |-> FALSE, replay |-> FALSE, err |-> None]]
    /\ cache_schedule' = [cache_schedule EXCEPT ![u] =
          [tokens |-> access_tokens,
           interval |-> clamp_interval(interval_minutes),
           last_sync |-> FALSE]]
    /\ detached' = cancel_task(u)
    /\ last_run' = cancelled_run(u, sync_tasks[u])
    /\ UNCHANGED <<sync_cursors, cache_cursors, cache_keys, cache_balances,
                   direct, published>>

ScheduleSync(u, access_tokens, interval_minutes) ==
    schedule_sync(u, access_tokens, interval_minutes) /\ UNCHANGED wsVars

\* sync_task: the loop body starts (first run, or a sleep is over) and calls
\* get_balances for the first token.  The field err is the exception the task
\* caught last, kept while it sleeps after it.
TaskWake(u) ==
    /\ sync_tasks[u].pc \in {"start", "sleep", "errsleep"}
    /\ sync_tasks' = [sync_tasks EXCEPT ![u] =
          [sync_tasks[u] EXCEPT !.pc = "bal", !.i = 1, !.err = None]]
    /\ UNCHANGED <<sync_cursors, cache_cursors, cache_keys, cache_balances,
                   cache_schedule, direct, published, last_run>>
    /\ UNCHANGED <<detached, wsVars>>

\* a list of balances with no account in it
EmptyBalances == "[]"

\* Python's `not cached_balances`: nothing cached, or an empty list cached
not_balances(cached) == cached \in {None, EmptyBalances}

\* sync_account_data: changes_detected
changes_detected(u, balances) ==
    not_balances(cache_balances[u]) \/ balances # cache_balances[u]

\* the publish_event call of sync_account_data
account_update(u, balances) ==
    [type |-> "account.update", user |-> u, payload |-> balances,
     targets |-> {u}]

\* sync_account_data after get_balances returned
BalResponse(u, balances) ==
    /\ sync_tasks[u].pc = "bal"
    /\ IF changes_detected(u, balances)
         THEN /\ cache_balances' = [cache_balances EXCEPT ![u] = balances]
              /\ published' = published \cup {account_update(u, balances)}
              /\ sync_tasks' = [sync_tasks EXCEPT ![u] =
                    [sync_tasks[u] EXCEPT !.pc = "pub_acct"]]
         ELSE /\ UNCHANGED <<cache_balances, published>>
              /\ sync_tasks' = [sync_tasks EXCEPT ![u] =
                    txn_call(sync_tasks[u], u)]
    /\ UNCHANGED <<sync_cursors, cache_cursors, cache_keys, cache_schedule,
                   direct, last_run>>
    /\ UNCHANGED <<detached, wsVars>>

\* get_balances raised: sync_account_data re-raises, sync_task sleeps 60 s
BalError(u, e) ==
    /\ sync_tasks[u].pc = "bal"
    /\ sync_tasks' = [sync_tasks EXCEPT ![u] =
          [sync_tasks[u] EXCEPT !.pc = "errsleep", !.err = e]]
    /\ UNCHANGED <<sync_cursors, cache_cursors, cache_keys, cache_balances,
                   cache_schedule, direct, published, last_run>>
    /\ UNCHANGED <<detached, wsVars>>

\* publish_event('account.update') returned; sync_transactions is called
PubAcctReturn(u) ==
    /\ sync_tasks[u].pc = "pub_acct"
    /\ sync_tasks' = [sync_tasks EXCEPT ![u] = txn_call(sync_tasks[u], u)]
    /\ UNCHANGED <<sync_cursors, cache_cursors, cache_keys, cache_balances,
                   cache_schedule, direct, published, last_run>>
    /\ UNCHANGED <<detached, wsVars>>

\* the aggregator answered the task's sync_transactions call
TaskTxnResponse(u, k, nc) ==
    LET t == txn_response(sync_tasks[u], u, k, nc) IN
    /\ sync_tasks[u].pc = "txn"
    /\ txn_effects(sync_tasks[u], u, k, nc)
    /\ IF t.pc = "ret"
         THEN /\ sync_tasks' = [sync_tasks EXCEPT ![u] = task_advance(t)]
              /\ cache_schedule' = schedule_after(u, t)
              /\ last_run' = run_record(u, t.tokens[t.i], t, "returned",
                                        TRUE, new_transactions(k))
         ELSE /\ sync_tasks' = [sync_tasks EXCEPT ![u] = t]
              /\ UNCHANGED <<cache_schedule, last_run>>
    /\ UNCHANGED <<cache_balances, direct>>
    /\ UNCHANGED <<detached, wsVars>>

\* one handler for the tasks of all users: the exception ends the loop body of
\* every task
TaskTxnError_shared(u, e) ==
    /\ sync_tasks[u].pc = "txn"
    /\ sync_tasks' = [v \in SyncUsers |->
          IF sync_tasks[v].pc = "none" THEN sync_tasks[v]
          ELSE [clear_run(sync_tasks[v]) EXCEPT !.pc = "errsleep", !.err = e]]
    /\ last_run' = run_record(u, sync_tasks[u].tokens[sync_tasks[u].i],
                              sync_tasks[u], e, FALSE, 0)
    /\ UNCHANGED <<sync_cursors, cache_cursors, cache_keys, cache_balances,
                   cache_schedule, direct, published>>
    /\ UNCHANGED <<detached, wsVars>>

\* the aggregator call raised: sync_transactions re-raises, sync_task sleeps
TaskTxnError(u, e) ==
    /\ sync_tasks[u].pc = "txn"
    /\ sync_tasks' = [sync_tasks EXCEPT ![u] =
          [clear_run(sync_tasks[u]) EXCEPT !.pc = "errsleep", !.err = e]]
    /\ last_run' = run_record(u, sync_tasks[u].tokens[sync_tasks[u].i],
                              sync_tasks[u], e, FALSE, 0)
    /\ UNCHANGED <<sync_cursors, cache_cursors, cache_keys, cache_balances,
                   cache_schedule, direct, published>>
    /\ UNCHANGED <<detached, wsVars>>

\* publish_event('transaction.create') returned ok (True or False); its value
\* is not looked at, and sync_transactions returns its result
TaskPubTxnReturn(u, ok) ==
    LET t == sync_tasks[u] IN
    /\ t.pc = "pub_txn"
    /\ sync_tasks' = [sync_tasks EXCEPT ![u] = task_advance(t)]
    /\ cache_schedule' = schedule_after(u, t)
    /\ last_run' = run_record(u, t.tokens[t.i], t, "returned", ok,
                              new_transactions(t.txns))
    /\ UNCHANGED <<sync_cursors, cache_cursors, cache_keys, cache_balances,
                   direct, published>>
    /\ UNCHANGED <<detached, wsVars>>

\* a direct call of sync_transactions(user_id, access_token)
DirectCall(d, u, tok) ==
    /\ direct[d].pc = "none"
    /\ direct' = [direct EXCEPT ![d] =
          txn_call([pc |-> "none", user |-> u, token |-> tok, cur |-> None,
                    txns |-> 0, next |-> None, saved |-> FALSE,
                    replay |-> FALSE], u)]
    /\ UNCHANGED <<sync_cursors, cache_cursors, cache_keys, cache_balances,
                   cache_schedule, sync_tasks, published, last_run>>
    /\ UNCHANGED <<detached, wsVars>>

DirectTxnResponse(d, k, nc) ==
    LET c == direct[d]
        r == txn_response(c, c.user, k, nc) IN
    /\ c.pc = "txn"
    /\ txn_effects(c, c.user, k, nc)
    /\ IF r.pc = "ret"
         THEN /\ direct' = [direct EXCEPT ![d] = NoCall]
              /\ last_run' = run_record(c.user, c.token, r, "returned", TRUE,
                                        new_transactions(k))
         ELSE /\ direct' = [direct EXCEPT ![d] = r]
              /\ UNCHANGED last_run
    /\ UNCHANGED <<cache_balances, cache_schedule, sync_tasks>>
    /\ UNCHANGED <<detached, wsVars>>

DirectTxnError(d, e) ==
    LET c == direct[d] IN
    /\ c.pc = "txn"
    /\ direct' = [direct EXCEPT ![d] = NoCall]
    /\ last_run' = run_record(c.user, c.token, c, e, FALSE, 0)
    /\ UNCHANGED <<sync_cursors, cache_cursors, cache_keys, cache_balances,
                   cache_schedule, sync_tasks, published>>
    /\ UNCHANGED <<detached, wsVars>>

DirectPubTxnReturn(d, ok) ==
    LET c == direct[d] IN
    /\ c.pc = "pub_txn"
    /\ direct' = [direct EXCEPT ![d] = NoCall]
    /\ last_run' = run_record(c.user, c.token, c, "returned", ok,
                              new_transactions(c.txns))
    /\ UNCHANGED <<sync_cursors, cache_cursors, cache_keys, cache_balances,
                   cache_schedule, sync_tasks, published>>
    /\ UNCHANGED <<detached, wsVars>>

SyncNext ==
    \/ \E u \in SyncActors : \E l \in TokenLists(u), m \in Intervals :
          ScheduleSync(u, l, m)
    \/ \E u \in SyncActors : CancelSync(u)
    \/ \E u \in SyncActors : TaskWake(u)
    \/ \E u \in SyncActors, b \in BalanceValues : BalResponse(u, b)
    \/ \E u \in SyncActors, e \in BalErrors : BalError(u, e)
    \/ \E u \in SyncActors : PubAcctReturn(u)
    \/ \E u \in SyncActors, k \in Batches, nc \in NextCursors :
          TaskTxnResponse(u, k, nc)
    \/ \E u \in SyncActors, e \in PlaidErrors : TaskTxnError(u, e)
    \/ \E u \in SyncActors, ok \in BOOLEAN : TaskPubTxnReturn(u, ok)
    \/ \E d \in DirectSlots, u \in SyncActors : \E tok \in Tokens(u) :
          DirectCall(d, u, tok)
    \/ \E d \in DirectSlots, k \in Batches, nc \in NextCursors :
          DirectTxnResponse(d, k, nc)
    \/ \E d \in DirectSlots, e \in PlaidErrors : DirectTxnError(d, e)
    \/ \E d \in DirectSlots, ok \in BOOLEAN : DirectPubTxnReturn(d, ok)

(***************************************************************************)
(* Claims about SyncService                                                *)
(***************************************************************************)

\* the sync_transactions calls in flight at the aggregator for (u, tok)
InFlight(u, tok) ==
    (IF sync_tasks[u].pc = "txn" /\ sync_tasks[u].tokens[sync_tasks[u].i] = tok
       THEN 1 ELSE 0)
    + Cardinality({d \in DirectSlots :
          direct[d].pc = "txn" /\ direct[d].user = u /\ direct[d].token = tok})

\* C1: single-flight - for every (user_id, source) at most one
\* AggregatorClient.sync_transactions call is in flight at any time.
C1_SingleFlight ==
    \A u \in SyncUsers : \A tok \in Tokens(u) : InFlight(u, tok) <= 1

\* C3: cursor monotonicity - a transaction sync that has ended has replaced the
\* persisted cursor by next_cursor if and only if the whole batch was applied;
\* a run that failed or was cancelled after the aggregator's response has not.
C3_CursorIffApplied ==
    last_run.outcome # "none" =>
        /\ last_run.saved => (last_run.outcome = "returned" /\ last_run.applied)
        /\ (last_run.outcome = "returned" /\ last_run.applied
              /\ last_run.next # None) => last_run.saved

\* C4: idempotent replay - a transaction sync re-run with the same cursor and
\* the same aggregator response reports zero newly added transactions.
C4_ReplayAddsNothing ==
    (last_run.outcome = "returned" /\ last_run.replay) => last_run.new = 0

\* a replay has run to its end
C4_ReplayHappened ==
    last_run.outcome = "returned" /\ last_run.replay /\ last_run.txns > 0

(***************************************************************************)
(* Part 2.  WebSocketManager and EventManager                              *)
(***************************************************************************)

\* bounds of the connection model
MaxConnSockets == 6
MaxWsSockets == 2
MaxEvents == 2

PING_INTERVAL == 30
PING_TIMEOUT == 10
MAX_CONNECTIONS_PER_USER == 5
EVENT_TTL == 3600
WS_EVENT_TTL == 60

\* EVENT_TYPES.values() of events.py
EVENT_TYPES == {"account.update", "transaction.create", "budget.update",
                "goal.update", "investment.update"}
\* a variant of valid_events that also admits the types publish_event accepts
valid_events_and_published ==
    {"transaction", "budget", "goal", "notification"} \cup EVENT_TYPES

\* valid_events of WebSocketManager.subscribe
valid_events == {"transaction", "budget", "goal", "notification"}

WsUsers == {"A", "B"}
\* a socket is a transport object of one user (the user its token names)
ConnSockets == {"A"} \X (1..MaxConnSockets)
WsSockets == {"A"} \X (1..MaxWsSockets)
RelaySockets == {<<"A", 1>>, <<"B", 1>>}
HbSockets == {"A"} \X (1..MaxWsSockets)
TtlSockets == {<<"A", 1>>}
Sockets == ConnSockets \cup WsSockets \cup RelaySockets \cup HbSockets
UserOf(w) == w[1]

\* the event types and subscription requests that callers use in the model
UsedTypes == {"goal", "goal.update"}
SubRequests == {{"goal"}, {"goal", "goal.update"}}
EmSubRequests == {{"goal.update"}, {"goal.update", "goal"}}
TargetSets == SUBSET WsUsers
\* the users that subscribe at the EventManager in the relay model
EmUsers == {"B"}

NoMsg == [id |-> 0]
NoRet == [n |-> 0]
Idle == [pc |-> "sleep"]

\* WebSocketManager.__init__ and EventManager.__init__, the cache empty
WsInit ==
    /\ connections = [u \in WsUsers |-> {}]
    /\ ws_subscriptions = [u \in WsUsers |-> {}]
    /\ em_subscriptions = [u \in WsUsers |-> {}]
    /\ conn_pc = [w \in Sockets |-> "new"]
    /\ transport = [w \in Sockets |-> "connecting"]
    /\ hb = [w \in Sockets |-> "none"]
    /\ inbox = [w \in Sockets |-> "empty"]
    /\ ws_slot = [t \in UsedTypes |-> NoMsg]
    /\ em_slot = [t \in UsedTypes |-> NoMsg]
    /\ pub_call = NoMsg
    /\ em_poll = Idle
    /\ ws_poll = Idle
    /\ clock = 0
    /\ n_events = 0
    /\ owed = [w \in Sockets |-> {}]
    /\ conn_subs = [w \in Sockets |-> {}]
    /\ received = [w \in Sockets |-> <<>>]
    /\ answered = [w \in Sockets |-> FALSE]
    /\ ret = NoRet

\* the connection-limit test of connect()
limit_reached(u) ==
    connections[u] # {} /\ Cardinality(connections[u]) >= MAX_CONNECTIONS_PER_USER

\* connect() up to `await websocket.accept()`: the token is verified, the limit
\* is checked; valid is the verifier's verdict
Connect(w, valid) ==
    /\ conn_pc[w] = "new"
    /\ conn_pc' = [conn_pc EXCEPT ![w] =
          IF valid /\ ~limit_reached(UserOf(w)) THEN "accepting" ELSE "rejected"]
    /\ UNCHANGED <<connections, ws_subscriptions, transport, hb>>
    /\ UNCHANGED <<syncVars, ret, em_subscriptions, inbox, evVars, em_poll, ws_poll,
                   clock, conn_subs, received, answered>>

\* connect() after accept() returned: the socket is registered, then the
\* connection state is written to the cache
ConnectAccepted(w) ==
    /\ conn_pc[w] = "accepting"
    /\ transport[w] = "connecting"
    /\ transport' = [transport EXCEPT ![w] = "open"]
    /\ connections' = [connections EXCEPT ![UserOf(w)] = @ \cup {w}]
    /\ conn_pc' = [conn_pc EXCEPT ![w] = "storing"]
    /\ UNCHANGED <<ws_subscriptions, hb>>
    /\ UNCHANGED <<syncVars, ret, em_subscriptions, inbox, evVars, em_poll, ws_poll,
                   clock, conn_subs, received, answered>>

\* accept() raised: connect() returns False
ConnectAcceptFailed(w) ==
    /\ conn_pc[w] = "accepting"
    /\ conn_pc' = [conn_pc EXCEPT ![w] = "rejected"]
    /\ transport' = [transport EXCEPT ![w] = "lost"]
    /\ UNCHANGED <<connections, ws_subscriptions, hb>>
    /\ UNCHANGED <<syncVars, ret, em_subscriptions, inbox, evVars, em_poll, ws_poll,
                   clock, conn_subs, received, answered>>

\* connect() after the cache write: the heartbeat task is started and True is
\* returned; if the write raised, False is returned and no task is started
ConnectStored(w, ok) ==
    /\ conn_pc[w] = "storing"
    /\ conn_pc' = [conn_pc EXCEPT ![w] = IF ok THEN "connected" ELSE "rejected"]
    /\ hb' = [hb EXCEPT ![w] = IF ok THEN "sleep" ELSE @]
    /\ UNCHANGED <<connections, ws_subscriptions, transport>>
    /\ UNCHANGED <<syncVars, ret, em_subscriptions, inbox, evVars, em_poll, ws_poll,
                   clock, conn_subs, received, answered>>

\* disconnect(websocket, user_id): set.remove raises KeyError when the socket
\* is not in the user's set, and then nothing else is done; otherwise the
\* user's subscriptions are dropped, the cache entry is deleted and the
\* transport is closed; if the cache delete raises (cache_ok false), the
\* transport is not closed
disc_connections(w) ==
    [connections EXCEPT ![UserOf(w)] = @ \ {w}]

disc_key_error(w) ==
    connections[UserOf(w)] # {} /\ w \notin connections[UserOf(w)]

disc_subscriptions(w) ==
    IF disc_key_error(w) THEN ws_subscriptions
    ELSE [ws_subscriptions EXCEPT ![UserOf(w)] = {}]

disc_transport(w, cache_ok) ==
    IF disc_key_error(w) \/ ~cache_ok THEN transport
    ELSE [transport EXCEPT ![w] = "closed"]

disconnect(w, cache_ok) ==
    /\ connections' = disc_connections(w)
    /\ ws_subscriptions' = disc_subscriptions(w)
    /\ transport' = disc_transport(w, cache_ok)

\* an explicit disconnect of a socket whose connect() has returned
Disconnect(w, cache_ok) ==
    /\ conn_pc[w] \in {"connected", "rejected"}
    /\ transport[w] # "closed"
    /\ disconnect(w, cache_ok)
    /\ UNCHANGED <<conn_pc, hb>>
    /\ UNCHANGED <<syncVars, ret, em_subscriptions, inbox, evVars, em_poll, ws_poll,
                   clock, conn_subs, received, answered>>

\* the peer goes away without a close handshake
ClientDrop(w) ==
    /\ transport[w] = "open"
    /\ transport' = [transport EXCEPT ![w] = "lost"]
    /\ UNCHANGED <<connections, ws_subscriptions, conn_pc, hb>>
    /\ UNCHANGED <<syncVars, ret, em_subscriptions, inbox, evVars, em_poll, ws_poll,
                   clock, conn_subs, received, answered>>

\* WebSocketManager.subscribe(websocket, user_id, event_types)
ws_subscribe_ok(event_types) == \A e \in event_types : e \in valid_events

ws_subscribe(w, event_types) ==
    IF ws_subscribe_ok(event_types)
      THEN /\ ws_subscriptions' =
                 [ws_subscriptions EXCEPT ![UserOf(w)] = @ \cup event_types]
           /\ conn_subs' = [conn_subs EXCEPT ![w] = @ \cup event_types]
      ELSE UNCHANGED <<ws_subscriptions, conn_subs>>

Subscribe(w, event_types) ==
    /\ conn_pc[w] = "connected"
    /\ ws_subscribe(w, event_types)
    /\ UNCHANGED <<connections, conn_pc, transport, hb>>
    /\ UNCHANGED <<syncVars, ret, em_subscriptions, inbox, evVars, em_poll, ws_poll,
                   clock, received, answered>>

\* a cache entry read at the current time: gone once its TTL has run out
live(entry) == IF entry.id # 0 /\ clock < entry.exp THEN entry ELSE NoMsg

\* history of an event: the target_users it was published with and the time of
\* its publication
stamp(tg) == [targeted |-> tg.targeted, targets |-> tg.targets, at |-> clock]

\* the payload WebSocketManager.broadcast writes to ws_events:<type>; user_ids
\* is put into it only when it is a non-empty list.  tg is the event's history
ws_payload(id, event_type, user_ids, tg) ==
    [id |-> id, type |-> event_type, user_ids |-> user_ids,
     exp |-> clock + WS_EVENT_TTL, tg |-> tg]

\* WebSocketManager.broadcast(event_type, message, user_ids)
broadcast(id, event_type, user_ids, tg) ==
    ws_slot' = [ws_slot EXCEPT ![event_type] =
                  ws_payload(id, event_type, user_ids, tg)]

\* the message publish_event writes to events:<type>
event_message(event_type, tg) ==
    [id |-> n_events + 1, type |-> event_type, targets |-> tg.targets,
     exp |-> clock + EVENT_TTL, tg |-> stamp(tg)]

\* the sockets an event is owed to when it is published: registered, their
\* user subscribed to the type and among the targets, if there are any
owed_to(event_type, tg) ==
    {w \in Sockets : /\ w \in connections[UserOf(w)]
                     /\ event_type \in ws_subscriptions[UserOf(w)]
                     /\ (tg.targeted => UserOf(w) \in tg.targets)}

note_owed(event_type, tg) ==
    [w \in Sockets |-> IF w \in owed_to(event_type, tg)
                         THEN owed[w] \cup {n_events + 1} ELSE owed[w]]

\* EventManager.publish_event up to its broadcast call: the type is validated
\* and the event is written to events:<type>; for an unknown type False is
\* returned
publish_event(event_type, tg) ==
    /\ n_events < MaxEvents
    /\ pub_call = NoMsg
    /\ IF event_type \in EVENT_TYPES
         THEN /\ n_events' = n_events + 1
              /\ owed' = note_owed(event_type, tg)
              /\ em_slot' = [em_slot EXCEPT ![event_type] =
                               event_message(event_type, tg)]
              /\ pub_call' = event_message(event_type, tg)
         ELSE UNCHANGED <<n_events, owed, em_slot, pub_call>>
    /\ UNCHANGED ws_slot

PublishEvent(event_type, tg) ==
    /\ publish_event(event_type, tg)
    /\ UNCHANGED <<syncVars, ret, connVars, em_subscriptions, inbox, em_poll, ws_poll,
                   clock, conn_subs, received, answered>>

\* publish_event's call of WebSocketManager.broadcast, and its return
PublishBroadcast ==
    /\ pub_call # NoMsg
    /\ broadcast(pub_call.id, pub_call.type, pub_call.targets, pub_call.tg)
    /\ pub_call' = NoMsg
    /\ UNCHANGED <<em_slot, n_events, owed>>
    /\ UNCHANGED <<syncVars, ret, connVars, em_subscriptions, inbox, em_poll, ws_poll,
                   clock, conn_subs, received, answered>>

\* a direct call of WebSocketManager.broadcast
Broadcast(event_type, tg) ==
    /\ n_events < MaxEvents
    /\ n_events' = n_events + 1
    /\ owed' = note_owed(event_type, tg)
    /\ broadcast(n_events + 1, event_type, tg.targets, stamp(tg))
    /\ UNCHANGED <<em_slot, pub_call>>
    /\ UNCHANGED <<syncVars, ret, connVars, em_subscriptions, inbox, em_poll, ws_poll,
                   clock, conn_subs, received, answered>>

\* a variant of em_subscribe that drops the types the user already has
em_subscribe_toggle(u, event_types, verified) ==
    IF verified /\ event_types \subseteq EVENT_TYPES
      THEN [em_subscriptions EXCEPT ![u] =
              (@ \ event_types) \cup (event_types \ @)]
      ELSE em_subscriptions

\* EventManager.subscribe(user_id, event_types); verified is the verdict of
\* verify_token
em_subscribe(u, event_types, verified) ==
    IF verified /\ event_types \subseteq EVENT_TYPES
      THEN [em_subscriptions EXCEPT ![u] = @ \cup event_types]
      ELSE em_subscriptions

EmSubscribe(u, event_types, verified) ==
    em_subscriptions' = em_subscribe(u, event_types, verified)
    /\ UNCHANGED <<syncVars, ret, connVars, inbox, evVars, em_poll, ws_poll, clock,
                   conn_subs, received, answered>>

\* EventManager.unsubscribe(user_id, event_types); no types means all
em_unsubscribe(u, event_types, verified) ==
    IF verified
      THEN [em_subscriptions EXCEPT ![u] =
              IF event_types = {} THEN {} ELSE @ \ event_types]
      ELSE em_subscriptions

EmUnsubscribe(u, event_types, verified) ==
    em_subscriptions' = em_unsubscribe(u, event_types, verified)
    /\ UNCHANGED <<syncVars, ret, connVars, inbox, evVars, em_poll, ws_poll, clock,
                   conn_subs, received, answered>>

\* EventManager._start_redis_subscriber: one cache read of events:<type>
EmPollGet(event_type) ==
    /\ em_poll.pc = "sleep"
    /\ event_type \in EVENT_TYPES
    /\ live(em_slot[event_type]) # NoMsg
    /\ em_poll' = [pc |-> "got", msg |-> em_slot[event_type]]
    /\ UNCHANGED <<syncVars, ret, connVars, em_subscriptions, inbox, evVars, ws_poll,
                   clock, conn_subs, received, answered>>

\* EventManager.handle_event: the subscribers of the type, narrowed to the
\* targets if there are any
subscribers(e) ==
    {u \in WsUsers : /\ e.type \in em_subscriptions[u]
                     /\ (e.targets = {} \/ u \in e.targets)}

\* handle_event of the message read, with its broadcast to the subscribers
EmPollHandle ==
    /\ em_poll.pc = "got"
    /\ em_poll' = Idle
    /\ IF subscribers(em_poll.msg) # {}
         THEN broadcast(em_poll.msg.id, em_poll.msg.type,
                        subscribers(em_poll.msg), em_poll.msg.tg)
         ELSE UNCHANGED ws_slot
    /\ UNCHANGED <<syncVars, ret, connVars, em_subscriptions, inbox, em_slot,
                   pub_call, n_events, owed, ws_poll, clock, conn_subs,
                   received, answered>>

\* websocket.send_json(payload) reaching the client: the socket's history gets
\* the event the first time it arrives; own tells whether that socket had
\* asked for the type
deliver(w, msg) ==
    IF \E i \in 1..Len(received[w]) : received[w][i].id = msg.id
      THEN received
      ELSE [received EXCEPT ![w] =
              Append(@, [id |-> msg.id, type |-> msg.type,
                         own |-> msg.type \in conn_subs[w], tg |-> msg.tg])]

\* the keys of _connections: the users with at least one socket
conn_keys == {u \in WsUsers : connections[u] # {}}

\* a variant of should_receive without the user_ids test
should_receive_untargeted(u, msg) ==
    msg.type \in ws_subscriptions[u]

\* the two tests of _distribute_message for one user
should_receive(u, msg) ==
    /\ ~(msg.user_ids # {} /\ u \notin msg.user_ids)
    /\ msg.type \in ws_subscriptions[u]

\* WebSocketManager._start_redis_subscriber: the read of the channel list
WsPollScan ==
    /\ ws_poll.pc = "sleep"
    /\ {t \in UsedTypes : live(ws_slot[t]) # NoMsg} # {}
    /\ ws_poll' = [pc |-> "chan",
                   chans |-> {t \in UsedTypes : live(ws_slot[t]) # NoMsg}]
    /\ UNCHANGED <<syncVars, ret, connVars, em_subscriptions, inbox, evVars, em_poll,
                   clock, conn_subs, received, answered>>

\* the poller after a message is done: the next channel, or the sleep
after_message(chans) ==
    IF chans = {} THEN Idle ELSE [pc |-> "chan", chans |-> chans]

\* the read of one channel's message; _distribute_message starts on it.
\* failed is history: the sockets a send of this message has failed on
WsPollGet(t) ==
    /\ ws_poll.pc = "chan"
    /\ t \in ws_poll.chans
    /\ ws_poll' =
         IF live(ws_slot[t]) = NoMsg
           THEN after_message(ws_poll.chans \ {t})
           ELSE [pc |-> "dist", chans |-> ws_poll.chans \ {t},
                 msg |-> ws_slot[t], users_left |-> conn_keys,
                 dlen |-> Cardinality(conn_keys), user |-> "-",
                 socks_left |-> {}, slen |-> 0, failed |-> {}]
    /\ UNCHANGED <<syncVars, ret, connVars, em_subscriptions, inbox, evVars, em_poll,
                   clock, conn_subs, received, answered>>

\* the loops of _distribute_message resume after an await.  Python raises
\* RuntimeError when a set or dict changed size while it is iterated over.
inner_changed(p) ==
    p.user # "-" /\ Cardinality(connections[p.user]) # p.slen

inner_more(p) ==
    p.user # "-" /\ ~inner_changed(p) /\ p.socks_left \cap connections[p.user] # {}

outer_changed(p) ==
    ~inner_changed(p) /\ ~inner_more(p) /\ Cardinality(conn_keys) # p.dlen

eligible(p) ==
    {u \in p.users_left \cap conn_keys : should_receive(u, p.msg)}

\* the iteration raised: the poller's except clause sleeps and starts over
DistAbort ==
    /\ ws_poll.pc = "dist"
    /\ inner_changed(ws_poll) \/ outer_changed(ws_poll)
    /\ ws_poll' = Idle
    /\ UNCHANGED <<connections, ws_subscriptions, transport, received>>
    /\ UNCHANGED <<syncVars, ret, em_subscriptions, conn_pc, hb, inbox, evVars,
                   em_poll, clock, conn_subs, answered>>

\* all users were visited
DistDone ==
    /\ ws_poll.pc = "dist"
    /\ ~inner_changed(ws_poll) /\ ~inner_more(ws_poll) /\ ~outer_changed(ws_poll)
    /\ eligible(ws_poll) = {}
    /\ ws_poll' = after_message(ws_poll.chans)
    /\ UNCHANGED <<connections, ws_subscriptions, transport, received>>
    /\ UNCHANGED <<syncVars, ret, em_subscriptions, conn_pc, hb, inbox, evVars,
                   em_poll, clock, conn_subs, answered>>

\* the socket the loops reach next: one more of the current user, or the first
\* of the next user that should receive the message
next_targets(p) ==
    IF inner_more(p)
      THEN {[user |-> p.user, sock |-> w, users_left |-> p.users_left,
             socks_left |-> p.socks_left \ {w}, slen |-> p.slen] :
               w \in p.socks_left \cap connections[p.user]}
      ELSE IF inner_changed(p) \/ outer_changed(p) THEN {}
      ELSE UNION {{[user |-> u, sock |-> w, users_left |-> p.users_left \ {u},
                    socks_left |-> connections[u] \ {w},
                    slen |-> Cardinality(connections[u])] :
                     w \in connections[u]} : u \in eligible(p)}

\* one send_json of _distribute_message.  On an open transport the message
\* arrives.  Otherwise send_json raises: ConnectionClosed is caught and the
\* socket disconnected; any other exception leaves _distribute_message
DistSend(failure, cache_ok) ==
    /\ ws_poll.pc = "dist"
    /\ \E n \in next_targets(ws_poll) :
         IF transport[n.sock] = "open"
           THEN /\ received' = deliver(n.sock, ws_poll.msg)
                /\ ws_poll' = [ws_poll EXCEPT !.user = n.user,
                       !.users_left = n.users_left,
                       !.socks_left = n.socks_left, !.slen = n.slen]
                /\ UNCHANGED <<connections, ws_subscriptions, transport>>
           ELSE IF failure = "ConnectionClosed"
             THEN /\ disconnect(n.sock, cache_ok)
                  /\ ws_poll' = [ws_poll EXCEPT !.user = n.user,
                       !.users_left = n.users_left,
                       !.socks_left = n.socks_left, !.slen = n.slen,
                       !.failed = @ \cup {n.sock}]
                  /\ UNCHANGED received
             ELSE /\ ws_poll' = Idle
                  /\ UNCHANGED <<connections, ws_subscriptions, transport,
                                 received>>
    /\ UNCHANGED <<syncVars, ret, em_subscriptions, conn_pc, hb, inbox, evVars,
                   em_poll, clock, conn_subs, answered>>

SendFailures == {"ConnectionClosed", "RuntimeError"}

\* _monitor_heartbeat after its sleep: the ping is sent; if the send raises,
\* the socket is disconnected and the task ends
HbPing(w, cache_ok) ==
    /\ hb[w] = "sleep"
    /\ IF transport[w] = "open"
         THEN /\ hb' = [hb EXCEPT ![w] = "wait"]
              /\ answered' = [answered EXCEPT ![w] = FALSE]
              /\ UNCHANGED <<connections, ws_subscriptions, transport>>
         ELSE /\ hb' = [hb EXCEPT ![w] = "done"]
              /\ disconnect(w, cache_ok)
              /\ UNCHANGED answered
    /\ UNCHANGED <<inbox, conn_pc>>
    /\ UNCHANGED <<syncVars, ret, em_subscriptions, evVars, em_poll, ws_poll, clock,
                   conn_subs, received>>

\* receive_json returned a message within PING_TIMEOUT: whatever it is, the
\* loop goes on
HbReceive(w) ==
    /\ hb[w] = "wait"
    /\ inbox[w] # "empty"
    /\ hb' = [hb EXCEPT ![w] = "sleep"]
    /\ inbox' = [inbox EXCEPT ![w] = "empty"]
    /\ answered' = [answered EXCEPT ![w] = (inbox[w] = "pong")]
    /\ UNCHANGED <<connections, ws_subscriptions, transport, conn_pc>>
    /\ UNCHANGED <<syncVars, ret, em_subscriptions, evVars, em_poll, ws_poll, clock,
                   conn_subs, received>>

\* PING_TIMEOUT ran out with nothing received (or receive_json raised): the
\* socket is disconnected and the task ends
HbTimeout(w, cache_ok) ==
    /\ hb[w] = "wait"
    /\ inbox[w] = "empty"
    /\ hb' = [hb EXCEPT ![w] = "done"]
    /\ disconnect(w, cache_ok)
    /\ UNCHANGED <<inbox, conn_pc, answered>>
    /\ UNCHANGED <<syncVars, ret, em_subscriptions, evVars, em_poll, ws_poll, clock,
                   conn_subs, received>>

ClientMessages == {"pong", "subscribe"}

\* the client sends a message on its open connection
ClientSend(w, m) ==
    /\ transport[w] = "open"
    /\ inbox[w] = "empty"
    /\ inbox' = [inbox EXCEPT ![w] = m]
    /\ UNCHANGED <<connections, ws_subscriptions, transport, conn_pc, hb,
                   answered>>
    /\ UNCHANGED <<syncVars, ret, em_subscriptions, evVars, em_poll, ws_poll, clock,
                   conn_subs, received>>

vars == <<syncVars, wsVars>>

Init == SyncInit /\ WsInit

SpecSync == Init /\ [][SyncNext]_vars

\* the target_users arguments callers pass: None, or a list of users
TargetInputs ==
    {[targeted |-> FALSE, targets |-> {}]} \cup
    {[targeted |-> TRUE, targets |-> s] : s \in {{"A"}}}

\* connections only: many sockets of one user
ConnNext ==
    \/ \E w \in ConnSockets : Connect(w, TRUE)
    \/ \E w \in ConnSockets : ConnectAccepted(w)
    \/ \E w \in ConnSockets : ConnectStored(w, TRUE)
    \/ \E w \in ConnSockets : Disconnect(w, TRUE)

SpecConn == Init /\ [][ConnNext]_vars

\* C2: connection cap - after any interleaving of connect() and disconnect()
\* calls the number of registered connections of a user never exceeds
\* MAX_CONNECTIONS_PER_USER.
C2_ConnectionCap ==
    \A u \in WsUsers : Cardinality(connections[u]) <= MAX_CONNECTIONS_PER_USER

\* delivery by the WebSocketManager's poller of events broadcast directly
WsTypes == {"goal"}

WsNext ==
    \/ \E w \in WsSockets : Connect(w, TRUE)
    \/ \E w \in WsSockets : ConnectAccepted(w)
    \/ \E w \in WsSockets : ConnectStored(w, TRUE)
    \/ \E w \in WsSockets : Disconnect(w, TRUE)
    \/ \E w \in WsSockets, r \in SubRequests : Subscribe(w, r)
    \/ \E t \in WsTypes, tg \in TargetInputs : Broadcast(t, tg)
    \/ WsPollScan
    \/ \E t \in UsedTypes : WsPollGet(t)
    \/ DistAbort
    \/ DistDone
    \/ \E f \in SendFailures, ok \in BOOLEAN : DistSend(f, ok)

SpecWs == Init /\ [][WsNext]_vars

\* the ids of the events a socket has received
got(w) == {received[w][i].id : i \in 1..Len(received[w])}

\* C6: type filtering - an event of type T is never delivered to a connection
\* that is not subscribed to T.
C6_OnlySubscribedTypes ==
    \A w \in Sockets : \A i \in 1..Len(received[w]) : received[w][i].own

\* an event is still on its way while a cache entry or a task holds it
in_pipeline(id) ==
    \/ \E t \in UsedTypes : live(ws_slot[t]).id = id \/ live(em_slot[t]).id = id
    \/ pub_call.id = id
    \/ em_poll.pc = "got" /\ em_poll.msg.id = id
    \/ ws_poll.pc = "dist" /\ ws_poll.msg.id = id

\* the socket is still a connected subscriber
still_connected(w) ==
    /\ w \in connections[UserOf(w)]
    /\ transport[w] = "open"

\* C7: at-least-once delivery - every event published while a subscriber of its
\* type stays connected is delivered to it or still on its way; it is not
\* silently dropped.
C7_NotSilentlyDropped ==
    \A w \in Sockets : \A id \in owed[w] :
        still_connected(w) => (id \in got(w) \/ in_pipeline(id))

\* the relay: events published through the EventManager and broadcast
\* directly, two users with one socket each, both pollers running
RelayNext ==
    \/ \E w \in RelaySockets : Connect(w, TRUE)
    \/ \E w \in RelaySockets : ConnectAccepted(w)
    \/ \E w \in RelaySockets : ConnectStored(w, TRUE)
    \/ \E w \in RelaySockets, r \in SubRequests : Subscribe(w, r)
    \/ \E u \in EmUsers, r \in EmSubRequests : EmSubscribe(u, r, TRUE)
    \/ \E t \in UsedTypes, tg \in TargetInputs : PublishEvent(t, tg)
    \/ PublishBroadcast
    \/ \E t \in WsTypes, tg \in TargetInputs : Broadcast(t, tg)
    \/ \E t \in UsedTypes : EmPollGet(t)
    \/ EmPollHandle
    \/ WsPollScan
    \/ \E t \in UsedTypes : WsPollGet(t)
    \/ DistAbort
    \/ DistDone
    \/ \E f \in SendFailures, ok \in BOOLEAN : DistSend(f, ok)

SpecRelay == Init /\ [][RelayNext]_vars

\* C5: targeted delivery - an event published with a non-empty target_users
\* list is received only by connections whose user is in target_users.
C5_TargetedDelivery ==
    \A w \in Sockets : \A i \in 1..Len(received[w]) :
        (received[w][i].tg.targeted /\ received[w][i].tg.targets # {})
            => UserOf(w) \in received[w][i].tg.targets

\* a targeted event has reached its target while a connected user outside the
\* target list is subscribed to its type
C5_TargetReached ==
    \E w \in RelaySockets : \E i \in 1..Len(received[w]) :
        /\ received[w][i].tg.targeted
        /\ UserOf(w) \in received[w][i].tg.targets
        /\ \E x \in RelaySockets :
             /\ UserOf(x) \notin received[w][i].tg.targets
             /\ x \in connections[UserOf(x)]
             /\ transport[x] = "open"
             /\ received[w][i].type \in ws_subscriptions[UserOf(x)]
             /\ received[w][i].id \in owed[w] \ owed[x]

Times == {0, 30, WS_EVENT_TTL, EVENT_TTL - 30, EVENT_TTL, EVENT_TTL + 30,
          EVENT_TTL + WS_EVENT_TTL}

\* time passes; the cache drops the entries whose TTL has run out (live).  The
\* instants are far apart: a publish_event or handle_event call in progress is
\* over before the next one
Tick(t) ==
    /\ t \in Times
    /\ t > clock
    /\ pub_call = NoMsg
    /\ em_poll.pc = "sleep"
    /\ clock' = t
    /\ UNCHANGED <<syncVars, ret, connVars, em_subscriptions, inbox, evVars, em_poll,
                   ws_poll, conn_subs, received, answered>>

\* one user's socket, events of both paths, both pollers and the clock
TtlNext ==
    \/ \E w \in TtlSockets : Connect(w, TRUE)
    \/ \E w \in TtlSockets : ConnectAccepted(w)
    \/ \E w \in TtlSockets : ConnectStored(w, TRUE)
    \/ \E w \in TtlSockets, r \in SubRequests : Subscribe(w, r)
    \/ \E r \in EmSubRequests : EmSubscribe("A", r, TRUE)
    \/ \E t \in UsedTypes, tg \in TargetInputs : PublishEvent(t, tg)
    \/ PublishBroadcast
    \/ \E t \in WsTypes, tg \in TargetInputs : Broadcast(t, tg)
    \/ \E t \in UsedTypes : EmPollGet(t)
    \/ EmPollHandle
    \/ WsPollScan
    \/ \E t \in UsedTypes : WsPollGet(t)
    \/ DistAbort
    \/ DistDone
    \/ \E f \in SendFailures, ok \in BOOLEAN : DistSend(f, ok)
    \/ \E t \in Times : Tick(t)

SpecTtl == Init /\ [][TtlNext]_vars

\* C9: TTL bound - no stored copy of an event is readable once EVENT_TTL has
\* elapsed since the event was published; re-relaying the stored event does
\* not extend its lifetime.
C9_LifetimeWithinTtl ==
    \A t \in UsedTypes :
        /\ live(ws_slot[t]) # NoMsg => clock < ws_slot[t].tg.at + EVENT_TTL
        /\ live(em_slot[t]) # NoMsg => clock < em_slot[t].tg.at + EVENT_TTL

\* the heartbeat task of one socket
HbStep(w) ==
    \/ \E ok \in BOOLEAN : HbPing(w, ok)
    \/ HbReceive(w)
    \/ \E ok \in BOOLEAN : HbTimeout(w, ok)

\* connections with their heartbeat tasks and their clients
HbNext ==
    \/ \E w \in HbSockets, valid \in BOOLEAN : Connect(w, valid)
    \/ \E w \in HbSockets : ConnectAccepted(w)
    \/ \E w \in HbSockets : ConnectAcceptFailed(w)
    \/ \E w \in HbSockets, ok \in BOOLEAN : ConnectStored(w, ok)
    \/ \E w \in HbSockets, ok \in BOOLEAN : Disconnect(w, ok)
    \/ \E w \in HbSockets : ClientDrop(w)
    \/ \E w \in HbSockets, m \in ClientMessages : ClientSend(w, m)
    \/ \E w \in HbSockets, ok \in BOOLEAN : HbPing(w, ok)
    \/ \E w \in HbSockets : HbReceive(w)
    \/ \E w \in HbSockets, ok \in BOOLEAN : HbTimeout(w, ok)

\* a heartbeat task is an asyncio task: when its sleep or its wait_for is over,
\* the event loop runs it
SpecHb ==
    Init /\ [][HbNext]_vars /\ \A w \in HbSockets : WF_vars(HbStep(w))

\* C10: heartbeat reclamation - a connection that is waiting for the answer to
\* a ping and never answers one is eventually removed from the registry.
C10_Reclaimed ==
    \A w \in HbSockets :
        [](hb[w] = "wait" => <>(answered[w] \/ w \notin connections[UserOf(w)]))

\* C11: transport tied to registry entry - once disconnect has removed a
\* connection's registry entry and returned, the connection's transport is no
\* longer open.
C11_TransportClosed ==
    \A w \in Sockets :
        transport[w] = "open" => w \in connections[UserOf(w)]

(***************************************************************************)
(* Part 3.  The calls of publish_event, subscribe and unsubscribe with     *)
(* what they return                                                        *)
(***************************************************************************)

\* how many calls are recorded
MaxCalls == 3

\* the two subscription registries
registries == <<ws_subscriptions, em_subscriptions>>

\* the record of a call: what was called (auth is the verdict of verify_token),
\* what it returned, the registries before and after it, and whether it
\* repeats the call recorded before it, that call having succeeded and the
\* registries being as it left them
call_record(op, who, types, auth, ok, after) ==
    [n |-> ret.n + 1, op |-> op, who |-> who, types |-> types, auth |-> auth,
     ok |-> ok, before |-> registries, after |-> after,
     again |-> /\ ret.n > 0
               /\ ret.op = op /\ ret.who = who /\ ret.types = types
               /\ ret.auth = auth /\ ret.ok
               /\ ret.after = registries]

\* what EventManager.subscribe returns
em_subscribe_returns(event_types, verified) ==
    verified /\ event_types \subseteq EVENT_TYPES

\* what EventManager.unsubscribe returns
em_unsubscribe_returns(verified) == verified

\* WebSocketManager.subscribe: the registry it leaves
ws_subscribed(w, event_types) ==
    IF ws_subscribe_ok(event_types)
      THEN [ws_subscriptions EXCEPT ![UserOf(w)] = @ \cup event_types]
      ELSE ws_subscriptions

ApiSockets == {<<"A", 1>>}
ApiUsers == {"A"}
ApiSubRequests == {{"goal"}, {"goal.update"}, {"goal", "other"}}
EmUnsubRequests == {{}, {"goal.update"}}
PubTypes == {"goal.update", "sync.failed", "other"}

\* a call of WebSocketManager.subscribe
SubscribeCall(w, event_types) ==
    /\ ret.n < MaxCalls
    /\ conn_pc[w] = "connected"
    /\ ws_subscribe(w, event_types)
    /\ ret' = call_record("ws.subscribe", UserOf(w), event_types, TRUE,
                          ws_subscribe_ok(event_types),
                          <<ws_subscribed(w, event_types), em_subscriptions>>)
    /\ UNCHANGED <<connections, conn_pc, transport, hb>>
    /\ UNCHANGED <<syncVars, em_subscriptions, inbox, evVars, em_poll, ws_poll,
                   clock, received, answered>>

\* a call of EventManager.subscribe
EmSubscribeCall(u, event_types, verified) ==
    /\ ret.n < MaxCalls
    /\ em_subscriptions' = em_subscribe(u, event_types, verified)
    /\ ret' = call_record("em.subscribe", u, event_types, verified,
                          em_subscribe_returns(event_types, verified),
                          <<ws_subscriptions,
                            em_subscribe(u, event_types, verified)>>)
    /\ UNCHANGED <<syncVars, connVars, inbox, evVars, em_poll, ws_poll, clock,
                   conn_subs, received, answered>>

\* a call of EventManager.unsubscribe
EmUnsubscribeCall(u, event_types, verified) ==
    /\ ret.n < MaxCalls
    /\ em_subscriptions' = em_unsubscribe(u, event_types, verified)
    /\ ret' = call_record("em.unsubscribe", u, event_types, verified,
                          em_unsubscribe_returns(verified),
                          <<ws_subscriptions,
                            em_unsubscribe(u, event_types, verified)>>)
    /\ UNCHANGED <<syncVars, connVars, inbox, evVars, em_poll, ws_poll, clock,
                   conn_subs, received, answered>>

\* a call of EventManager.publish_event, up to its broadcast call
PublishCall(event_type, tg) ==
    /\ ret.n < MaxCalls
    /\ publish_event(event_type, tg)
    /\ ret' = call_record("publish", "-", {event_type}, TRUE,
                          event_type \in EVENT_TYPES, registries)
    /\ UNCHANGED <<syncVars, connVars, em_subscriptions, inbox, em_poll, ws_poll,
                   clock, conn_subs, received, answered>>

ApiNext ==
    \/ \E w \in ApiSockets : Connect(w, TRUE)
    \/ \E w \in ApiSockets : ConnectAccepted(w)
    \/ \E w \in ApiSockets : ConnectStored(w, TRUE)
    \/ \E w \in ApiSockets : Disconnect(w, TRUE)
    \/ \E w \in ApiSockets, r \in ApiSubRequests : SubscribeCall(w, r)
    \/ \E u \in ApiUsers, r \in EmSubRequests, v \in BOOLEAN :
           EmSubscribeCall(u, r, v)
    \/ \E u \in ApiUsers, r \in EmUnsubRequests, v \in BOOLEAN :
           EmUnsubscribeCall(u, r, v)
    \/ \E t \in PubTypes, tg \in TargetInputs : PublishCall(t, tg)
    \/ PublishBroadcast

SpecApi == Init /\ [][ApiNext]_vars

\* C12: subscriptions die with their connection - when the last connection of
\* a user has been disconnected, neither subscription registry holds a
\* subscription of that user any more.
C12_SubscriptionsDie ==
    [][\A u \in WsUsers :
          (connections[u] # {} /\ connections'[u] = {})
              => (ws_subscriptions'[u] = {} /\ em_subscriptions'[u] = {})]_vars

\* the fan-out of one message to the sockets of two users, some of which have
\* lost their peer
FanSockets == RelaySockets

FanNext ==
    \/ \E w \in FanSockets : Connect(w, TRUE)
    \/ \E w \in FanSockets : ConnectAccepted(w)
    \/ \E w \in FanSockets : ConnectStored(w, TRUE)
    \/ \E w \in FanSockets : ClientDrop(w)
    \/ \E w \in FanSockets, r \in SubRequests : Subscribe(w, r)
    \/ \E t \in WsTypes, tg \in TargetInputs : Broadcast(t, tg)
    \/ WsPollScan
    \/ \E t \in UsedTypes : WsPollGet(t)
    \/ DistAbort
    \/ DistDone
    \/ \E f \in SendFailures, ok \in BOOLEAN : DistSend(f, ok)

SpecFan == Init /\ [][FanNext]_vars

\* a step of _distribute_message that sends the message to a socket
send_step ==
    /\ ws_poll.pc = "dist"
    /\ next_targets(ws_poll) # {}
    /\ ws_poll' # ws_poll

\* C13: send failure means disconnect - when a send to a socket fails, whatever
\* the failure, the socket is removed from the registry.
C13_SendFailureDisconnects ==
    [][send_step =>
         \E n \in next_targets(ws_poll) :
            \/ transport[n.sock] = "open" /\ ws_poll'.pc = "dist"
            \/ transport[n.sock] # "open" /\ n.sock \notin connections'[n.user]
      ]_vars

\* the socket has the event after the step
has_received_next(w, id) ==
    \E i \in 1..Len(received'[w]) : received'[w][i].id = id

\* C14: per-recipient failure isolation - when the fan-out of an event ends
\* and the send to one of its recipients had failed, every other connection
\* the event is owed to and that is still connected has received it.
C14_FailureIsolated ==
    [][(ws_poll.pc = "dist" /\ ws_poll'.pc # "dist" /\ ws_poll.failed # {})
         => \A w \in Sockets :
               (/\ ws_poll.msg.id \in owed[w]
                /\ w \in connections'[UserOf(w)]
                /\ transport'[w] = "open")
                   => has_received_next(w, ws_poll.msg.id)
      ]_vars

\* the closed set of known event types of the specification
KNOWN_EVENT_TYPES ==
    {"account.update", "transaction.create", "budget.update", "goal.update",
     "investment.update", "sync.failed"}

\* C15: publish validates against the closed set - publish_event accepts
\* exactly the six known event types and returns false for any other.
C15_PublishKnownTypes ==
    (ret.n > 0 /\ ret.op = "publish")
        => (ret.ok <=> ret.types \subseteq KNOWN_EVENT_TYPES)

\* C16: subscription idempotence - the same subscribe or unsubscribe issued a
\* second time in a row leaves the registries as the first call left them and
\* reports success.
C16_Idempotent ==
    (ret.n > 0 /\ ret.op # "publish" /\ ret.again)
        => (ret.ok /\ ret.after = ret.before)

\* a subscribe that added a type and an unsubscribe that removed one have
\* been repeated
C16_Repeated ==
    /\ ret.n > 0
    /\ ret.again
    /\ \/ ret.op = "em.subscribe" /\ ret.types \subseteq em_subscriptions[ret.who]
       \/ ret.op = "em.unsubscribe" /\ em_subscriptions[ret.who] = {}

\* C17: subscription validation - a subscribe request succeeds and adds its
\* types if they all belong to the known event types; otherwise it is
\* rejected and leaves the registry unchanged.
C17_SubscribeKnownTypes ==
    (ret.n > 0 /\ ret.op = "ws.subscribe") =>
        IF ret.types \subseteq KNOWN_EVENT_TYPES
          THEN ret.ok /\ ret.types \subseteq ret.after[1][ret.who]
          ELSE ~ret.ok /\ ret.after = ret.before

(***************************************************************************)
(* Part 4.  The periodic task of schedule_sync on its own                  *)
(***************************************************************************)

RetryNext ==
    \/ \E u \in SyncActors : \E l \in TokenLists(u), m \in Intervals :
          ScheduleSync(u, l, m)
    \/ \E u \in SyncActors : CancelSync(u)
    \/ \E u \in SyncActors : TaskWake(u)
    \/ \E u \in SyncActors, b \in BalanceValues : BalResponse(u, b)
    \/ \E u \in SyncActors, e \in BalErrors : BalError(u, e)
    \/ \E u \in SyncActors : PubAcctReturn(u)
    \/ \E u \in SyncActors, k \in Batches, nc \in NextCursors :
          TaskTxnResponse(u, k, nc)
    \/ \E u \in SyncActors, e \in PlaidErrors : TaskTxnError(u, e)
    \/ \E u \in SyncActors, ok \in BOOLEAN : TaskPubTxnReturn(u, ok)

\* asyncio.sleep returns: a sleeping task is woken
SpecRetry ==
    /\ Init
    /\ [][RetryNext]_vars
    /\ \A u \in SyncActors : WF_sync_tasks(TaskWake(u))

\* the service has published a sync.failed event for u
sync_failed_published(u) ==
    \E e \in published : e.type = "sync.failed" /\ e.user = u

\* C18: bounded retry - a schedule whose sync fails on every tick is retried
\* only a bounded number of times: from some point on it is failed and no
\* retry tick occurs.  (A schedule that keeps failing is one whose task is,
\* from some point on, never cancelled, never rescheduled and never at the end
\* of a completed loop body.)
C18_BoundedRetry ==
    \A u \in SyncActors :
        \/ []<>(sync_tasks[u].pc \in {"none", "start", "sleep"})
        \/ <>[](sync_tasks[u].pc # "errsleep")

\* the calls of the aggregator the task makes: get_balances, sync_transactions
aggregator_call(t) == t.pc \in {"bal", "txn"}

\* C19: AuthExpiredError is not retried - once the task's sync has raised
\* AuthExpiredError, a sync.failed event has been published for the user and
\* the task makes no further aggregator call.
C19_AuthNotRetried ==
    [][\A u \in SyncActors :
         (sync_tasks[u].pc = "errsleep"
            /\ sync_tasks[u].err = "AuthExpiredError") =>
              /\ sync_failed_published(u)
              /\ ~(sync_tasks'[u].pc # "none" /\ aggregator_call(sync_tasks'[u])
                     /\ sync_tasks'[u].tokens = sync_tasks[u].tokens)]_vars

\* C20: cursor-conflict fallback - a transaction sync that was called with a
\* stored cursor does not end by raising CursorConflictError: it falls back to
\* a call with no cursor.
C20_CursorConflictFallback ==
    last_run.outcome = "CursorConflictError" => last_run.cur = None

(***************************************************************************)
(* Part 5.  Calls of schedule_sync and cancel_sync, recorded                *)
(***************************************************************************)

\* the variables of WebSocketManager and EventManager, without the call record
wsState == <<connections, ws_subscriptions, em_subscriptions, conn_pc,
             transport, hb, inbox, ws_slot, em_slot, pub_call, em_poll,
             ws_poll, clock, n_events, owed, conn_subs, received, answered>>

\* the record of a call of schedule_sync or cancel_sync: the interval asked
\* for, where the task the user had before it was, and what it returned.  Nothing in
\* the try block of either method raises, so both return True.
sync_call_record(op, who, asked) ==
    [n |-> ret.n + 1, op |-> op, who |-> who, asked |-> asked,
     before |-> sync_tasks[who].pc, ok |-> TRUE]

SchedUsers == {"A"}
SchedTokens(u) == IF u = "A" THEN {<<"a1", "a2">>} ELSE {<<"b1">>}
SchedBalances == {"bal1"}
SchedErrors == {"TransientNetworkError"}

\* a call of SyncService.schedule_sync
ScheduleCall(u, access_tokens, interval_minutes) ==
    /\ ret.n < MaxCalls
    /\ schedule_sync(u, access_tokens, interval_minutes)
    /\ ret' = sync_call_record("schedule", u, interval_minutes)
    /\ UNCHANGED wsState

\* a call of SyncService.cancel_sync
CancelCall(u) ==
    /\ ret.n < MaxCalls
    /\ cancel_sync(u)
    /\ ret' = sync_call_record("cancel", u, 0)
    /\ UNCHANGED wsState

SchedNext ==
    \/ \E u \in SchedUsers : \E l \in SchedTokens(u), m \in Intervals :
          ScheduleCall(u, l, m)
    \/ \E u \in SchedUsers : CancelCall(u)
    \/ \E u \in SchedUsers : TaskWake(u)
    \/ \E u \in SchedUsers, b \in SchedBalances : BalResponse(u, b)
    \/ \E u \in SchedUsers, e \in SchedErrors : BalError(u, e)
    \/ \E u \in SchedUsers : PubAcctReturn(u)
    \/ \E u \in SchedUsers, k \in Batches, nc \in NextCursors :
          TaskTxnResponse(u, k, nc)
    \/ \E u \in SchedUsers, e \in SchedErrors : TaskTxnError(u, e)
    \/ \E u \in SchedUsers, ok \in BOOLEAN : TaskPubTxnReturn(u, ok)

SpecSched == Init /\ [][SchedNext]_vars

\* how many periodic tasks of u are running
live_tasks(u) ==
    (IF sync_tasks[u].pc = "none" THEN 0 ELSE 1) + Cardinality(detached[u])

C22_OneSchedule ==
    \A u \in SchedUsers :
        /\ live_tasks(u) <= 1
        /\ cache_schedule[u] # NoSchedule =>
              /\ sync_tasks[u].pc # "none"
              /\ sync_tasks[u].tokens = cache_schedule[u].tokens
              /\ sync_tasks[u].interval = cache_schedule[u].interval
        /\ (ret.n > 0 /\ ret.op = "schedule" /\ ret.who = u) =>
              detached[u] = {}

\* schedule_sync replaced a schedule whose task was in the middle of a tick
C22_Replaced ==
    /\ ret.n > 0 /\ ret.op = "schedule"
    /\ ret.before = "txn"
    /\ sync_tasks[ret.who].pc = "txn"

\* C23: interval clamping - as long as schedule_sync(u, tokens, interval) is
\* the last call made, it has returned True and the schedule stored and the
\* task running for u have the interval DEFAULT_SYNC_INTERVAL if the interval
\* asked for was below it, and the interval asked for otherwise.
C23_IntervalClamped ==
    (ret.n > 0 /\ ret.op = "schedule") =>
        LET want == IF ret.asked < DEFAULT_SYNC_INTERVAL
                      THEN DEFAULT_SYNC_INTERVAL ELSE ret.asked IN
        /\ ret.ok
        /\ cache_schedule[ret.who] # NoSchedule
        /\ cache_schedule[ret.who].interval = want
        /\ sync_tasks[ret.who].pc # "none"
        /\ sync_tasks[ret.who].interval = want

\* a schedule asked for with an interval below the minimum has ended a tick
C23_ClampedUp ==
    /\ ret.n > 0 /\ ret.op = "schedule"
    /\ ret.asked < DEFAULT_SYNC_INTERVAL
    /\ sync_tasks[ret.who].pc = "sleep"

(***************************************************************************)
(* Part 6.  The periodic tasks of two users                                *)
(***************************************************************************)

IsoUsers == {"A", "B"}
IsoTokens(u) == IF u = "A" THEN <<"a1">> ELSE <<"b1">>
\* the aggregator answers a task with no added transaction or with one
IsoBatches == {0, 1}

IsoNext ==
    \/ \E u \in IsoUsers : ScheduleSync(u, IsoTokens(u), DEFAULT_SYNC_INTERVAL)
    \/ \E u \in IsoUsers : TaskWake(u)
    \/ \E u \in IsoUsers, b \in SchedBalances : BalResponse(u, b)
    \/ \E u \in IsoUsers, e \in SchedErrors : BalError(u, e)
    \/ \E u \in IsoUsers : PubAcctReturn(u)
    \/ \E u \in IsoUsers, k \in IsoBatches, nc \in NextCursors :
          TaskTxnResponse(u, k, nc)
    \/ \E u \in IsoUsers, e \in SchedErrors : TaskTxnError(u, e)
    \/ \E u \in IsoUsers, ok \in BOOLEAN : TaskPubTxnReturn(u, ok)

SpecIso == Init /\ [][IsoNext]_vars

\* a step in which the sync of u's task fails: an aggregator call raises, or
\* publish_event returns False
failed_step(u) ==
    /\ sync_tasks[u].pc # "none"
    /\ sync_tasks'[u] # sync_tasks[u]
    /\ \/ sync_tasks'[u].pc = "errsleep"
       \/ /\ sync_tasks[u].pc = "pub_txn"
          /\ last_run'.outcome = "returned" /\ ~last_run'.applied

\* what belongs to user v: schedule, cursor, cached balances, periodic task
belongs_to(v) ==
    <<cache_schedule[v], sync_cursors[v], cache_cursors[v], cache_balances[v],
      sync_tasks[v], detached[v]>>

\* C24: user isolation - a step in which the sync of one user's task fails
\* leaves the schedule, the stored cursor, the cached balances and the
\* periodic task of every other user as they were.
C24_UserIsolation ==
    [][\A u \in IsoUsers : failed_step(u) =>
          \A v \in IsoUsers \ {u} : belongs_to(v)' = belongs_to(v)]_vars

\* the sync of A's task has failed while B's task, which has stored a cursor
\* and balances, is in the middle of a tick
C24_FailedBesideB ==
    /\ sync_tasks["A"].pc = "errsleep"
    /\ sync_tasks["B"].pc = "txn"
    /\ sync_cursors["B"] # None
    /\ cache_balances["B"] # None

(***************************************************************************)
(* Part 7.  Calls of sync_account_data, recorded                           *)
(***************************************************************************)

BalUsers == {"A"}
BalInputs == {EmptyBalances, "bal1", "bal2"}

\* a call of sync_account_data(u, token) for which get_balances returns
\* balances, up to its return: the record has the balances fetched, the value
\* cached before and after, changes_detected and the events published
AccountCall(u, balances) ==
    /\ ret.n < MaxCalls
    /\ IF changes_detected(u, balances)
         THEN /\ cache_balances' = [cache_balances EXCEPT ![u] = balances]
              /\ published' = published \cup {account_update(u, balances)}
         ELSE UNCHANGED <<cache_balances, published>>
    /\ ret' = [n |-> ret.n + 1, op |-> "account", who |-> u,
               fetched |-> balances, cached |-> cache_balances[u],
               changed |-> changes_detected(u, balances),
               events |-> IF changes_detected(u, balances)
                            THEN {account_update(u, balances)} ELSE {},
               after |-> cache_balances'[u]]
    /\ UNCHANGED <<sync_cursors, cache_cursors, cache_keys, cache_schedule,
                   sync_tasks, direct, last_run, detached>>
    /\ UNCHANGED wsState

BalNext ==
    \/ \E u \in BalUsers, b \in BalInputs : AccountCall(u, b)
    \/ \E u \in BalUsers : \E l \in SchedTokens(u) :
          ScheduleSync(u, l, DEFAULT_SYNC_INTERVAL)
    \/ \E u \in BalUsers : TaskWake(u)
    \/ \E u \in BalUsers, b \in BalInputs : BalResponse(u, b)
    \/ \E u \in BalUsers, e \in SchedErrors : BalError(u, e)
    \/ \E u \in BalUsers : PubAcctReturn(u)
    \/ \E u \in BalUsers, k \in Batches, nc \in NextCursors :
          TaskTxnResponse(u, k, nc)
    \/ \E u \in BalUsers, e \in SchedErrors : TaskTxnError(u, e)
    \/ \E u \in BalUsers, ok \in BOOLEAN : TaskPubTxnReturn(u, ok)

SpecBal == Init /\ [][BalNext]_vars

\* C25: balance change detection - an account sync reports a change, replaces
\* the cached balances by the fetched ones and publishes exactly one
\* account.update event with the fetched balances for the synced user alone
\* if and only if the fetched balances differ from the cached value or nothing
\* is cached; otherwise it reports no change, leaves the cache as it is and
\* publishes nothing.
C25_ChangeDetection ==
    (ret.n > 0 /\ ret.op = "account") =>
        IF ret.cached = None \/ ret.fetched # ret.cached
          THEN /\ ret.changed
               /\ ret.after = ret.fetched
               /\ ret.events = {[type |-> "account.update", user |-> ret.who,
                                 payload |-> ret.fetched,
                                 targets |-> {ret.who}]}
          ELSE /\ ~ret.changed
               /\ ret.after = ret.cached
               /\ ret.events = {}

(***************************************************************************)
(* Part 8.  Cursors of two sources of one user                             *)
(***************************************************************************)

\* the aggregator's cursors are per source: the cursor it returns for a token
ItemCursor == [a1 |-> "a1.c1", a2 |-> "a2.c1", b1 |-> "b1.c1"]
ItemCursors(tok) == {None, ItemCursor[tok]}

ChainUsers == {"A"}

\* the token of the sync_transactions call the task of u is awaiting
task_token(u) == sync_tasks[u].tokens[sync_tasks[u].i]

\* the aggregator answers the task's call with a cursor of the call's source
ItemTxnResponse(u, k) ==
    /\ sync_tasks[u].pc = "txn"
    /\ \E nc \in ItemCursors(task_token(u)) : TaskTxnResponse(u, k, nc)

\* the aggregator answers a direct call with a cursor of the call's source
ItemDirectTxnResponse(d, k) ==
    /\ direct[d].pc = "txn"
    /\ \E nc \in ItemCursors(direct[d].token) : DirectTxnResponse(d, k, nc)

ChainNext ==
    \/ \E u \in ChainUsers : \E l \in SchedTokens(u) :
          ScheduleSync(u, l, DEFAULT_SYNC_INTERVAL)
    \/ \E u \in ChainUsers : TaskWake(u)
    \/ \E u \in ChainUsers, b \in SchedBalances : BalResponse(u, b)
    \/ \E u \in ChainUsers, e \in SchedErrors : BalError(u, e)
    \/ \E u \in ChainUsers : PubAcctReturn(u)
    \/ \E u \in ChainUsers, k \in Batches : ItemTxnResponse(u, k)
    \/ \E u \in ChainUsers, e \in SchedErrors : TaskTxnError(u, e)
    \/ \E u \in ChainUsers, ok \in BOOLEAN : TaskPubTxnReturn(u, ok)
    \/ \E d \in DirectSlots, u \in ChainUsers : \E tok \in Tokens(u) :
          DirectCall(d, u, tok)
    \/ \E d \in DirectSlots, k \in Batches : ItemDirectTxnResponse(d, k)
    \/ \E d \in DirectSlots, e \in SchedErrors : DirectTxnError(d, e)
    \/ \E d \in DirectSlots, ok \in BOOLEAN : DirectPubTxnReturn(d, ok)

SpecChain == Init /\ [][ChainNext]_vars

\* C26: cursor chain per source - the cursor of every sync_transactions call
\* at the aggregator is null or a cursor the aggregator returned for the same
\* source; a cursor returned for one source is never sent for another source
\* of the same user.
C26_CursorChain ==
    /\ \A u \in ChainUsers : sync_tasks[u].pc = "txn" =>
          sync_tasks[u].cur \in ItemCursors(task_token(u))
    /\ \A d \in DirectSlots : direct[d].pc = "txn" =>
          direct[d].cur \in ItemCursors(direct[d].token)

(***************************************************************************)
(* Part 9.  Process restarts                                               *)
(***************************************************************************)

\* SyncService._load_sync_states: the cursors of the keys listed in the cache
load_sync_states ==
    [u \in SyncUsers |-> IF u \in cache_keys THEN cache_cursors[u] ELSE None]

\* the process ends and a new one constructs SyncService: the tasks and calls
\* of the old process are gone, the cache is as it was, __init__ starts with
\* an empty task table and loads the cursors
Restart ==
    /\ sync_cursors' = load_sync_states
    /\ sync_tasks' = [u \in SyncUsers |-> NoTask]
    /\ direct' = [d \in DirectSlots |-> NoCall]
    /\ detached' = [u \in SyncUsers |-> {}]
    /\ UNCHANGED <<cache_cursors, cache_keys, cache_balances, cache_schedule,
                   published, last_run>>
    /\ UNCHANGED wsVars

RestartUsers == {"A"}

RestartNext ==
    \/ Restart
    \/ \E u \in RestartUsers : \E l \in SchedTokens(u), m \in Intervals :
          ScheduleSync(u, l, m)
    \/ \E u \in RestartUsers : CancelSync(u)
    \/ \E u \in RestartUsers : TaskWake(u)
    \/ \E u \in RestartUsers, b \in SchedBalances : BalResponse(u, b)
    \/ \E u \in RestartUsers, e \in BalErrors : BalError(u, e)
    \/ \E u \in RestartUsers : PubAcctReturn(u)
    \/ \E u \in RestartUsers, k \in Batches, nc \in NextCursors :
          TaskTxnResponse(u, k, nc)
    \/ \E u \in RestartUsers, e \in PlaidErrors : TaskTxnError(u, e)
    \/ \E u \in RestartUsers, ok \in BOOLEAN : TaskPubTxnReturn(u, ok)

SpecRestart == Init /\ [][RestartNext]_vars

\* C27: schedules survive restarts - every stored schedule has a periodic
\* task that ticks for it, also after a restart of the process, and when a
\* tick of a schedule has ended, by success or by failure, the time of the
\* run is in the stored schedule.
C27_SchedulesSurvive ==
    \A u \in RestartUsers :
        /\ cache_schedule[u] # NoSchedule => sync_tasks[u].pc # "none"
        /\ sync_tasks[u].pc \in {"sleep", "errsleep"} =>
              /\ cache_schedule[u] # NoSchedule
              /\ cache_schedule[u].last_sync

(***************************************************************************)
(* More claims about WebSocketManager                                      *)
(***************************************************************************)

\* C28: disconnect frame - a step that removes one connection of a user who
\* has other connections removes only that connection, and every connection
\* that stays keeps the subscriptions it asked for: the user stays subscribed
\* to their types, so that they go on receiving them.
C28_DisconnectFrame ==
    [][\A w \in Sockets :
         (w \in connections[UserOf(w)] /\ w \notin connections'[UserOf(w)]
            /\ connections'[UserOf(w)] # {}) =>
              /\ connections'[UserOf(w)] = connections[UserOf(w)] \ {w}
              /\ \A w2 \in connections'[UserOf(w)] :
                    (conn_subs[w2] \cap ws_subscriptions[UserOf(w)])
                        \subseteq ws_subscriptions'[UserOf(w)]]_vars

\* the target_users arguments with the empty list among them
EmptyTargets == [targeted |-> TRUE, targets |-> {}]
ListInputs == TargetInputs \cup {EmptyTargets}

ListNext ==
    \/ \E w \in FanSockets : Connect(w, TRUE)
    \/ \E w \in FanSockets : ConnectAccepted(w)
    \/ \E w \in FanSockets : ConnectStored(w, TRUE)
    \/ \E w \in FanSockets : Disconnect(w, TRUE)
    \/ \E w \in FanSockets, r \in SubRequests : Subscribe(w, r)
    \/ \E t \in WsTypes, tg \in ListInputs : Broadcast(t, tg)
    \/ WsPollScan
    \/ \E t \in UsedTypes : WsPollGet(t)
    \/ DistAbort
    \/ DistDone
    \/ \E f \in SendFailures, ok \in BOOLEAN : DistSend(f, ok)

SpecList == Init /\ [][ListNext]_vars

\* C29: an empty target list is not a broadcast - no connection receives an
\* event that was published with target_users equal to the empty list.
C29_EmptyListNoDelivery ==
    \A w \in Sockets : \A i \in 1..Len(received[w]) :
        ~(received[w][i].tg.targeted /\ received[w][i].tg.targets = {})

\* C30: heartbeat independent of application messages - the heartbeat task
\* that waits for the answer to a ping goes on to its next round only when the
\* message it received is a pong, and a message that is not a pong is not
\* taken out of the connection by the heartbeat task.
C30_OnlyPongCounts ==
    [][\A w \in HbSockets : hb[w] = "wait" =>
          /\ hb'[w] = "sleep" => inbox[w] = "pong"
          /\ (inbox[w] = "subscribe" /\ hb'[w] # hb[w]) =>
                inbox'[w] = "subscribe"]_vars
====
